---- MODULE Spec2Model ----
(***************************************************************************)
(* Model of lib/session.ts (src/unnamed/part_000): the NextAuth options of *)
(* the application.                                                        *)
(*   - jwt.encode / jwt.decode : the token codec, built on jsonwebtoken    *)
(*   - callbacks.signIn        : the sign-in gate (lookup, then create)    *)
(*   - callbacks.session       : the session assembler (lookup, then merge)*)
(* The user store (getUser / createUser of ./actions) is a collaborator    *)
(* whose code is not part of the sources; it is modelled from its          *)
(* interface contract.                                                     *)
(***************************************************************************)
EXTENDS Integers, Sequences, FiniteSets, TLC

VARIABLES
    now,        \* Math.floor(Date.now() / 1000): the clock, epoch seconds
    ticks,      \* number of clock advances so far (bounds the clock)
    enc,        \* the last jwt.encode call: its arguments and its result
    dec,        \* the last jwt.decode call: its arguments and its result
    store,      \* the user store: a set of profiles
    ev,         \* the sign-in events, one record per event
    ss          \* the session-materialization event: one call of callbacks.session

vars == <<now, ticks, enc, dec, store, ev, ss>>

----------------------------------------------------------------------------
(* Bounds *)

MaxTicks == 2
StartTime == 100
NumEvents == 2

----------------------------------------------------------------------------
(* Objects.  A JS object is a function from its own keys to their values.  *)

EmptyObj == [k \in {} |-> 0]

\* { ...a, ...b }: every key of a and of b, b's value on a key of both.
Spread(a, b) ==
    [k \in (DOMAIN a) \cup (DOMAIN b) |-> IF k \in DOMAIN b THEN b[k] ELSE a[k]]

\* The object o without the keys ks.
Without(o, ks) == [k \in (DOMAIN o) \ ks |-> o[k]]

----------------------------------------------------------------------------
(* jsonwebtoken, as the codec uses it (HS256, no options).                 *)
(* A token string "h.p.s" is the sequence of its three segments.           *)

JwtHeader == "HS256"

\* The HMAC of the signing input under a key, as an ideal MAC: two MACs are
\* equal exactly when key and signing input are.
Hmac(secret, header, payload) ==
    [key |-> secret, hdr |-> header, msg |-> payload, whole |-> TRUE]

\* jsonwebtoken.sign(payload, secret): stamps iat unless the payload
\* carries a truthy one (payload.iat || now), then signs.
JwtSign(payload, secret, clock) ==
    LET stamped ==
            IF "iat" \in DOMAIN payload /\ payload["iat"] # 0   \* payload.iat || now
            THEN payload
            ELSE Spread(payload, [iat |-> clock])
    IN  <<JwtHeader, stamped, Hmac(secret, JwtHeader, stamped)>>

JwtErrors == {"jwt must be provided", "jwt malformed", "invalid signature", "jwt expired"}

\* jsonwebtoken.verify(token, secret): the payload, or the error thrown.
JwtVerify(token, secret, clock) ==
    IF Len(token) = 0
    THEN [ok |-> FALSE, err |-> "jwt must be provided", claims |-> EmptyObj]
    ELSE IF Len(token) # 3
    THEN [ok |-> FALSE, err |-> "jwt malformed", claims |-> EmptyObj]
    ELSE IF token[3] # Hmac(secret, token[1], token[2])
    THEN [ok |-> FALSE, err |-> "invalid signature", claims |-> EmptyObj]
    ELSE IF "exp" \in DOMAIN token[2] /\ clock >= token[2]["exp"]
    THEN [ok |-> FALSE, err |-> "jwt expired", claims |-> EmptyObj]
    ELSE [ok |-> TRUE, err |-> "none", claims |-> token[2]]

----------------------------------------------------------------------------
(* The token codec: authOptions.jwt                                        *)

Issuer == "grafbase"
TTL == 60 * 60

\* Variants of the codec with one slip each.
\* ... the caller's claims spread after iss and exp
EncodeClaims_CallerLast(token, clock) ==
    Spread([iss |-> Issuer, exp |-> clock + TTL], token)
\* ... a lifetime of one minute
EncodeClaims_Minute(token, clock) ==
    Spread(token, [iss |-> Issuer, exp |-> clock + 60])
\* ... exp made relative to the claims' own iat
EncodeClaims_FromIat(token, clock) ==
    Spread(token, [iss |-> Issuer,
                   exp |-> (IF "iat" \in DOMAIN token THEN token["iat"] ELSE clock) + TTL])
\* ... the caller's claims nested under a key instead of spread
EncodeClaims_Nested(token, clock) ==
    [token |-> token, iss |-> Issuer, exp |-> clock + TTL]
\* ... jsonwebtoken.decode in place of verify: the payload, unchecked
decode_Unverified(secret, token, clock) ==
    IF Len(token) >= 2
    THEN [ok |-> TRUE, err |-> "none", claims |-> token[2]]
    ELSE [ok |-> FALSE, err |-> "jwt malformed", claims |-> EmptyObj]

\* The claims object handed to jsonwebtoken.sign.
EncodeClaims(token, clock) ==
    Spread(token, [iss |-> Issuer, exp |-> clock + TTL])

\* jwt.encode({ secret, token })
encode(secret, token, clock) == JwtSign(EncodeClaims(token, clock), secret, clock)

\* jwt.decode({ secret, token }): the promise's outcome.
decode(secret, token, clock) == JwtVerify(token, secret, clock)

----------------------------------------------------------------------------
(* The codec's environment: the framework calls encode with the session it *)
(* built or with claims it decoded earlier; the cookie it hands to decode  *)
(* may be the token, or a cut-off part of it.                              *)

Secrets == {"secretK", "secretL"}

\* Claims a caller may pass to encode: session fields, with or without its
\* own iss, exp and iat.
BaseClaims == {[email |-> "a@x.com", name |-> "A"]}
CallerExtras ==
    { EmptyObj,
      [iss |-> "other", exp |-> 2 * TTL + 5],
      [exp |-> 1],
      [iat |-> 7],
      [iat |-> 0] }
CallerClaims == {Spread(b, x) : b \in BaseClaims, x \in CallerExtras}

ClockSteps == {1, TTL - 1, TTL}

NoToken == << >>

\* The token string cut off after k whole segments (k < 3), or inside its
\* signature (k = 3).
Truncate(token, k) ==
    IF k < 3
    THEN SubSeq(token, 1, k)
    ELSE <<token[1], token[2], [token[3] EXCEPT !.whole = FALSE]>>

\* payload.iat is set and truthy
HasIat(c) == "iat" \in DOMAIN c /\ c["iat"] # 0

\* enc.callerIat, dec.callerIat: the claims the caller first supplied, from
\* which this token descends by decoding and re-encoding, carried an iat.
NoEnc == [done |-> FALSE, claims |-> EmptyObj, secret |-> "none", at |-> 0,
          reencoded |-> FALSE, callerIat |-> FALSE, token |-> NoToken]
NoDec == [done |-> FALSE, input |-> NoToken, cut |-> FALSE, secret |-> "none",
          at |-> 0, callerIat |-> FALSE,
          out |-> [ok |-> FALSE, err |-> "none", claims |-> EmptyObj]]

Tick(d) ==
    /\ ticks < MaxTicks
    /\ now' = now + d
    /\ ticks' = ticks + 1
    /\ UNCHANGED <<enc, dec, store, ev, ss>>

\* encode of claims supplied by the caller
Encode(c, s) ==
    /\ enc' = [done |-> TRUE, claims |-> c, secret |-> s, at |-> now,
               reencoded |-> FALSE, callerIat |-> HasIat(c),
               token |-> encode(s, c, now)]
    /\ UNCHANGED <<now, ticks, dec, store, ev, ss>>

\* encode of the claims the last decode returned
ReEncode(s) ==
    /\ dec.done /\ dec.out.ok
    /\ enc' = [done |-> TRUE, claims |-> dec.out.claims, secret |-> s, at |-> now,
               reencoded |-> TRUE, callerIat |-> dec.callerIat,
               token |-> encode(s, dec.out.claims, now)]
    /\ UNCHANGED <<now, ticks, dec, store, ev, ss>>

\* decode of the last token
Decode(s) ==
    /\ enc.done
    /\ dec' = [done |-> TRUE, input |-> enc.token, cut |-> FALSE, secret |-> s,
               at |-> now, callerIat |-> enc.callerIat,
               out |-> decode(s, enc.token, now)]
    /\ UNCHANGED <<now, ticks, enc, store, ev, ss>>

\* decode of a cut-off copy of the last token
DecodeTruncated(s, k) ==
    /\ enc.done
    /\ dec' = [done |-> TRUE, input |-> Truncate(enc.token, k), cut |-> TRUE,
               secret |-> s, at |-> now, callerIat |-> enc.callerIat,
               out |-> decode(s, Truncate(enc.token, k), now)]
    /\ UNCHANGED <<now, ticks, enc, store, ev, ss>>

----------------------------------------------------------------------------
(* The user store: getUser and createUser of ./actions.  Their code is not *)
(* among the sources; they are modelled from the store's contract:         *)
(* lookupByEmail(email) -> Option<InternalProfile>, createUser(displayName,*)
(* email, avatarRef) -> InternalProfile, email unique, a second create for *)
(* an email rejected or deduplicated, either call may fail.                *)

Undefined == "undefined"

\* The absent profile: data.user is undefined.
NoProfile == [email |-> Undefined, name |-> Undefined, image |-> Undefined]

\* getUser(email) against the store db; up: the store answers this call.
getUser(db, email, up) ==
    IF ~up
    THEN [ok |-> FALSE, err |-> "StoreUnavailable", user |-> NoProfile]
    ELSE IF email = Undefined
    THEN [ok |-> FALSE, err |-> "MalformedIdentity", user |-> NoProfile]
    ELSE IF \E p \in db : p.email = email
    THEN [ok |-> TRUE, err |-> "none", user |-> CHOOSE p \in db : p.email = email]
    ELSE [ok |-> TRUE, err |-> "none", user |-> NoProfile]

\* createUser(name, email, image) against the store db; up: the store
\* answers this call; dedupe: it answers a create for a taken email by
\* keeping the profile it has, instead of rejecting the call.
createUser(db, name, email, image, up, dedupe) ==
    IF ~up
    THEN [ok |-> FALSE, err |-> "StoreUnavailable", db |-> db]
    ELSE IF email = Undefined
    THEN [ok |-> FALSE, err |-> "MalformedIdentity", db |-> db]
    ELSE IF \E p \in db : p.email = email
    THEN IF dedupe
         THEN [ok |-> TRUE, err |-> "none", db |-> db]
         ELSE [ok |-> FALSE, err |-> "EmailTaken", db |-> db]
    ELSE [ok |-> TRUE, err |-> "none",
          db |-> db \cup {[email |-> email, name |-> name, image |-> image]}]

----------------------------------------------------------------------------
(* The sign-in gate: authOptions.callbacks.signIn                          *)

\* Variants of signIn with one slip each.
\* ... the existence test dropped: always create
NeedsCreate_Always(userExists) == TRUE
\* ... name and email passed in each other's place
CreateArgs_Swapped(user) ==
    [name |-> user.email, email |-> user.name, image |-> user.image]
\* ... the catch block admits
SignInCatch_Admit == [ret |-> "true", thrown |-> FALSE]
\* ... no catch block: the error reaches the framework
SignInCatch_Rethrow == [ret |-> "none", thrown |-> TRUE]

\* if (!userExists.user)
NeedsCreate(userExists) == userExists.user = NoProfile

\* The arguments of the createUser call.
CreateArgs(user) ==
    [name |-> user.name, email |-> user.email, image |-> user.image]

\* return true
SignInReturn == [ret |-> "true", thrown |-> FALSE]

\* catch (error) { console.log(...); return false }
SignInCatch == [ret |-> "false", thrown |-> FALSE]

\* The identities the provider may assert: email missing or present.
Emails == {"a@x.com", "b@x.com"}
Names == {"A", "A2"}
Identities ==
    [email : Emails \cup {Undefined}, name : Names, image : {"img1"}]

NoUser == [email |-> Undefined, name |-> Undefined, image |-> Undefined]

Events == 1..NumEvents

\* A sign-in event before the provider's assertion.
\*   pc          position in Unauthenticated -> ... -> Admitted | Denied
\*   user        the identity asserted
\*   await       the store call signIn is waiting for
\*   userExists  what getUser returned
\*   lookupErr   the error getUser failed with, if it failed
\*   lookups, creates   store calls issued by this event
\*   ret, thrown        what signIn returned, or that it threw
\*   fault       a store call of this event found the store unavailable
\*   created     this event's createUser added a profile
\*   createFailed       this event's createUser call failed
\*   profileAtReturn    a profile for user.email was in the store when
\*                      signIn returned
\*   token       the framework issued a session token for this event
NoEvent ==
    [pc |-> "Unauthenticated", user |-> NoUser, await |-> "none",
     userExists |-> [user |-> NoProfile], lookupErr |-> "none", lookups |-> 0, creates |-> 0,
     ret |-> "none", thrown |-> FALSE, fault |-> FALSE, created |-> FALSE,
     createFailed |-> FALSE, profileAtReturn |-> FALSE, token |-> FALSE]

HasProfile(db, email) == \E p \in db : p.email = email

\* The event record when signIn ends with outcome out against the store db.
Finish(r, out, db) ==
    [r EXCEPT !.pc = IF out.ret = "true" THEN "Admitted" ELSE "Denied",
              !.await = "none",
              !.ret = out.ret,
              !.thrown = out.thrown,
              !.profileAtReturn = HasProfile(db, r.user.email)]

\* The provider asserts identity u for event e.
ExternalAssertion(e, u) ==
    /\ ev[e].pc = "Unauthenticated"
    /\ ev' = [ev EXCEPT ![e].pc = "ExternalAssertionReceived", ![e].user = u]
    /\ UNCHANGED <<store, now, ticks, enc, dec, ss>>

\* The framework calls signIn({ user }): getUser is called and awaited.
SignInStart(e) ==
    /\ ev[e].pc = "ExternalAssertionReceived"
    /\ ev' = [ev EXCEPT ![e].pc = "Reconciling", ![e].await = "getUser",
                        ![e].lookups = @ + 1]
    /\ UNCHANGED <<store, now, ticks, enc, dec, ss>>

\* getUser settles: signIn runs on to the createUser call, to return true,
\* or through the catch block.
GetUserSettles(e, up) ==
    /\ ev[e].pc = "Reconciling" /\ ev[e].await = "getUser"
    /\ LET r == getUser(store, ev[e].user.email, up)
           looked == [ev[e] EXCEPT !.userExists = [user |-> r.user],
                                   !.lookupErr = r.err,
                                   !.fault = @ \/ ~up]
       IN  ev' = [ev EXCEPT ![e] =
                    IF ~r.ok
                    THEN Finish(looked, SignInCatch, store)
                    ELSE IF NeedsCreate([user |-> r.user])
                    THEN [looked EXCEPT !.await = "createUser", !.creates = @ + 1]
                    ELSE Finish(looked, SignInReturn, store)]
    /\ UNCHANGED <<store, now, ticks, enc, dec, ss>>

\* createUser settles: signIn returns true, or runs through the catch block.
CreateUserSettles(e, up, dedupe) ==
    /\ ev[e].pc = "Reconciling" /\ ev[e].await = "createUser"
    /\ LET a == CreateArgs(ev[e].user)
           r == createUser(store, a.name, a.email, a.image, up, dedupe)
           called == [ev[e] EXCEPT !.fault = @ \/ ~up,
                                   !.created = (r.db # store),
                                   !.createFailed = ~r.ok]
       IN  /\ store' = r.db
           /\ ev' = [ev EXCEPT ![e] =
                        Finish(called, IF r.ok THEN SignInReturn ELSE SignInCatch, r.db)]
    /\ UNCHANGED <<now, ticks, enc, dec, ss>>

\* The framework, on signIn's answer: it goes on to issue the session token
\* when signIn returned true, and denies the sign-in otherwise.
IssueToken(e) ==
    /\ ev[e].ret = "true"
    /\ ~ev[e].token
    /\ ev' = [ev EXCEPT ![e].token = TRUE]
    /\ UNCHANGED <<store, now, ticks, enc, dec, ss>>

----------------------------------------------------------------------------
(* The session assembler: authOptions.callbacks.session                    *)

\* Variants of session with one slip each.
\* ... the session's user spread after the stored profile
MergeUser_ProviderLast(sessionUser, dataUser) == Spread(dataUser, sessionUser)
\* ... the catch block throws the error on
SessionCatch_Rethrow(session) == [value |-> EmptyObj, fresh |-> FALSE, thrown |-> TRUE]
\* ... the profile provisioned when the lookup finds none
SessionStoreAfter_Provision(db, session, data) ==
    IF data.ok /\ data.user = NoProfile
    THEN db \cup {[email |-> session["user"]["email"], name |-> Undefined,
                   image |-> Undefined]}
    ELSE db
\* ... the profile's fields assigned onto the session's own user object
SessionInputAfter_AssignInPlace(session, data) ==
    IF data.ok /\ data.user # NoProfile /\ "user" \in DOMAIN session
    THEN Spread(session, [user |-> Spread(session["user"], data.user)])
    ELSE session

\* session?.user?.email
SessionEmail(session) ==
    IF "user" \in DOMAIN session /\ "email" \in DOMAIN session["user"]
    THEN session["user"]["email"]
    ELSE Undefined

\* What ...x spreads: the own keys of x, none when x is undefined.
Spreadable(x) == IF x = NoProfile THEN EmptyObj ELSE x

\* { ...session.user, ...data?.user }
MergeUser(sessionUser, dataUser) == Spread(sessionUser, dataUser)

\* const newSession = { ...session, user: { ... } }; return newSession
\* fresh: the value returned is an object built by this call.
MergeSession(session, data) ==
    [value |-> Spread(session,
                      [user |-> MergeUser(
                          IF "user" \in DOMAIN session THEN session["user"] ELSE EmptyObj,
                          Spreadable(data.user))]),
     fresh |-> TRUE, thrown |-> FALSE]

\* catch (error) { console.log(...); return session }
SessionCatch(session) == [value |-> session, fresh |-> FALSE, thrown |-> FALSE]

\* The store once the callback has run: it calls getUser and nothing else.
SessionStoreAfter(db, session, data) == db

\* The caller's session object once the callback has run: the callback
\* reads it and spreads it, and assigns to none of its fields.
SessionInputAfter(session, data) == session

\* The session objects the framework may pass: with or without a user, the
\* user with or without an email, with keys the stored profile has too and
\* a key it has not.
SessionUsers ==
    { [email |-> "a@x.com", name |-> "A2", locale |-> "en"],
      [email |-> "b@x.com", name |-> "A", image |-> "img1"],
      [name |-> "A"] }
ProviderSessions ==
    {[user |-> u, expires |-> "2026-12-01"] : u \in SessionUsers}
        \cup {[expires |-> "2026-12-01"]}

\* The materialization event before the framework calls session.
\*   pc         "idle", "getUser" (awaiting the lookup), "done"
\*   given      the session object as it was when passed in
\*   input      the caller's session object as it is now
\*   lookups    getUser calls issued
\*   data       what getUser returned; lookupErr: the error it failed with
\*   ret        what session returned: value, fresh, thrown
\*   wrote      the callback changed the store
NoSession ==
    [pc |-> "idle", given |-> EmptyObj, input |-> EmptyObj, lookups |-> 0,
     data |-> [user |-> NoProfile], lookupErr |-> "none",
     ret |-> [value |-> EmptyObj, fresh |-> FALSE, thrown |-> FALSE],
     wrote |-> FALSE]

\* The framework calls session({ session }): the email is read, getUser is
\* called and awaited.
SessionStart(s) ==
    /\ ss.pc = "idle"
    /\ ss' = [ss EXCEPT !.pc = "getUser", !.given = s, !.input = s,
                        !.lookups = @ + 1]
    /\ UNCHANGED <<now, ticks, enc, dec, store, ev>>

\* getUser settles: session returns the merged session, or runs through the
\* catch block.
SessionGetUserSettles(up) ==
    /\ ss.pc = "getUser"
    /\ LET r == getUser(store, SessionEmail(ss.input), up)
       IN  /\ ss' = [ss EXCEPT !.pc = "done",
                        !.data = [user |-> r.user],
                        !.lookupErr = r.err,
                        !.input = SessionInputAfter(ss.input, r),
                        !.ret = IF r.ok THEN MergeSession(ss.input, r)
                                        ELSE SessionCatch(ss.input),
                        !.wrote = (SessionStoreAfter(store, ss.input, r) # store)]
           /\ store' = SessionStoreAfter(store, ss.input, r)
    /\ UNCHANGED <<now, ticks, enc, dec, ev>>

----------------------------------------------------------------------------
(* Initial states and specifications *)

\* After construction: the clock at its start, no token encoded or decoded,
\* an empty store, every sign-in event before its assertion.
Init ==
    /\ now = StartTime
    /\ ticks = 0
    /\ enc = NoEnc
    /\ dec = NoDec
    /\ store = {}
    /\ ev = [e \in Events |-> NoEvent]
    /\ ss = NoSession

NextCodec ==
    \/ \E d \in ClockSteps : Tick(d)
    \/ \E c \in CallerClaims, s \in Secrets : Encode(c, s)
    \/ \E s \in Secrets : ReEncode(s)
    \/ \E s \in Secrets : Decode(s)
    \/ \E s \in Secrets, k \in 0..3 : DecodeTruncated(s, k)

NextGate ==
    \/ \E e \in Events, u \in Identities : ExternalAssertion(e, u)
    \/ \E e \in Events : SignInStart(e)
    \/ \E e \in Events, up \in BOOLEAN : GetUserSettles(e, up)
    \/ \E e \in Events, up \in BOOLEAN, dedupe \in BOOLEAN : CreateUserSettles(e, up, dedupe)

NextSession ==
    \/ \E s \in ProviderSessions : SessionStart(s)
    \/ \E up \in BOOLEAN : SessionGetUserSettles(up)

\* Sign-in events and the materialization event, interleaved.
Next == NextGate \/ NextSession

SpecGate == Init /\ [][NextGate]_vars

Spec == Init /\ [][Next]_vars

\* Sign-in events up to the token, every call that was issued settling in
\* the end: the framework calls signIn once it has the assertion, and the
\* store answers or fails every call.
NextSignIn ==
    \/ NextGate
    \/ \E e \in Events : IssueToken(e)

SpecSignIn ==
    /\ Init
    /\ [][NextSignIn]_vars
    /\ \A e \in Events :
          /\ WF_vars(SignInStart(e))
          /\ WF_vars(\E up \in BOOLEAN : GetUserSettles(e, up))
          /\ WF_vars(\E up \in BOOLEAN, dedupe \in BOOLEAN : CreateUserSettles(e, up, dedupe))

SpecCodec == Init /\ [][NextCodec]_vars

----------------------------------------------------------------------------
(* Properties of the token codec                                           *)

Payload(token) == token[2]

\* The last decode was given the last token, whole, with the signing secret.
DecodedLastToken ==
    /\ enc.done /\ dec.done
    /\ ~dec.cut
    /\ dec.input = enc.token
    /\ dec.secret = enc.secret
    /\ dec.at >= enc.at

\* C2 (as claimed): in every token produced by encode, re-encoded ones
\* included, expiresAt = issuedAt + 3600, for claims whose caller supplied
\* no issued-at of its own.
C2_ExpIsIatPlusTTL ==
    (enc.done /\ ~enc.callerIat) =>
        Payload(enc.token)["exp"] = Payload(enc.token)["iat"] + TTL

\* C2 (amended): in every token expiresAt is the encode time + 3600; the
\* issued-at claim is the encode time when the claims given to encode carry
\* none, and is the one they carry otherwise (so a re-encoded token keeps the
\* iat of the first encode).
C2_ExpIsEncodeTimePlusTTL ==
    enc.done =>
        /\ Payload(enc.token)["exp"] = enc.at + TTL
        /\ Payload(enc.token)["iat"] =
               (IF HasIat(enc.claims) THEN enc.claims["iat"] ELSE enc.at)

\* C2 witness: a re-encoded token, signed later than the token its claims
\* were decoded from.
C2_Witness ==
    /\ enc.done /\ enc.reencoded /\ ~enc.callerIat
    /\ Payload(enc.token)["iat"] < enc.at
    /\ Payload(enc.token)["exp"] = enc.at + TTL

\* C3: whatever iss and exp the caller's claims carry, the signed claims have
\* iss = the system issuer and exp = encode time + 3600.
C3_IssuerAndExpiryOverridden ==
    enc.done =>
        /\ Payload(enc.token)["iss"] = Issuer
        /\ Payload(enc.token)["exp"] = enc.at + TTL
        /\ enc.token[3] = Hmac(enc.secret, JwtHeader, Payload(enc.token))

\* C3 witness: the caller supplied another issuer and another expiry.
C3_Witness ==
    /\ enc.done
    /\ "iss" \in DOMAIN enc.claims /\ enc.claims["iss"] # Issuer
    /\ "exp" \in DOMAIN enc.claims /\ enc.claims["exp"] > enc.at + TTL

\* C4 (as claimed): decode(encode(c, s), s) equals c on every field but iss
\* and exp, which hold the codec's values, and has no other field c lacks.
C4_RoundTripOnlyIssExp ==
    (DecodedLastToken /\ dec.out.ok) =>
        /\ Without(dec.out.claims, {"iss", "exp"}) = Without(enc.claims, {"iss", "exp"})
        /\ dec.out.claims["iss"] = Issuer
        /\ dec.out.claims["exp"] = enc.at + TTL

\* C4 (amended): decode(encode(c, s), s) equals c on every field but iss, exp
\* and iat; iss and exp hold the codec's values; iat is c's own when c has a
\* non-zero one and the encode time otherwise; there is no other field.
C4_RoundTripButIssExpIat ==
    (DecodedLastToken /\ dec.out.ok) =>
        /\ Without(dec.out.claims, {"iss", "exp", "iat"})
               = Without(enc.claims, {"iss", "exp", "iat"})
        /\ DOMAIN dec.out.claims = (DOMAIN enc.claims) \cup {"iss", "exp", "iat"}
        /\ dec.out.claims["iss"] = Issuer
        /\ dec.out.claims["exp"] = enc.at + TTL
        /\ dec.out.claims["iat"] =
               (IF HasIat(enc.claims) THEN enc.claims["iat"] ELSE enc.at)

\* C4 witness: a successful round trip of claims that carried no iat.
C4_Witness ==
    /\ DecodedLastToken /\ dec.out.ok
    /\ "iat" \notin DOMAIN enc.claims
    /\ "name" \in DOMAIN dec.out.claims

\* The cases of C5
SignedWithOtherSecret ==
    dec.done /\ Len(dec.input) = 3 /\ dec.input[3].key # dec.secret
ExpiredAtDecode ==
    dec.done /\ Len(dec.input) = 3 /\ Payload(dec.input)["exp"] < dec.at
TruncatedInput == dec.done /\ dec.cut

\* C5: decode fails with an invalid-token error and returns no claims for a
\* token signed with another secret, an expired token, a truncated token.
C5_DecodeRejects ==
    (SignedWithOtherSecret \/ ExpiredAtDecode \/ TruncatedInput) =>
        /\ ~dec.out.ok
        /\ dec.out.err \in JwtErrors
        /\ dec.out.claims = EmptyObj

\* C5 witness: a whole token, decoded with its signing secret after expiry.
C5_Witness ==
    /\ DecodedLastToken /\ ExpiredAtDecode
    /\ dec.out.err = "jwt expired"

\* C6: a token encoded at T and decoded with the same secret at t decodes
\* exactly when t < T + 3600, and fails with the expiry error otherwise.
C6_ValidUntilTTL ==
    DecodedLastToken =>
        /\ dec.out.ok <=> dec.at < enc.at + TTL
        /\ ~dec.out.ok => dec.out.err = "jwt expired"

\* C6 witness: decoded at exactly T + 3600, and rejected.
C6_Witness ==
    /\ DecodedLastToken
    /\ dec.at = enc.at + TTL
    /\ ~dec.out.ok

----------------------------------------------------------------------------
(* Properties of the sign-in gate                                          *)

Terminal(e) == ev[e].pc \in {"Admitted", "Denied"}

ProfilesOf(email) == {p \in store : p.email = email}

\* The sign-in events for email m
EventsFor(m) == {e \in Events : ev[e].pc # "Unauthenticated" /\ ev[e].user.email = m}

\* C1: the store never holds two profiles with one email; and once two or
\* more sign-in events for an email that had no profile have all ended, in
\* whatever order their store calls were served, the store holds exactly one
\* profile with that email (the store having answered every call).
C1_OneProfilePerEmail ==
    /\ \A p, q \in store : p.email = q.email => p = q
    /\ \A m \in Emails :
          ( /\ Cardinality(EventsFor(m)) >= 2
            /\ \A e \in EventsFor(m) : Terminal(e) /\ ~ev[e].fault )
          => Cardinality(ProfilesOf(m)) = 1

\* C1 witness: two events for one email both found it absent, both called
\* createUser, both ended, and the store holds one profile for it.
C1_Witness ==
    \E e1, e2 \in Events :
        /\ e1 # e2
        /\ ev[e1].user.email = ev[e2].user.email
        /\ ev[e1].user.name # ev[e2].user.name
        /\ Terminal(e1) /\ Terminal(e2)
        /\ ev[e1].creates = 1 /\ ev[e2].creates = 1
        /\ ~ev[e1].fault /\ ~ev[e2].fault
        /\ Cardinality(ProfilesOf(ev[e1].user.email)) = 1

\* The event ended after a lookup that returned a profile.
FoundExisting(e) ==
    Terminal(e) /\ ~ev[e].fault /\ ev[e].userExists.user # NoProfile

\* C7: signIn for an email that has a profile returns true, issues no create
\* call, and the profile it found is still the only one for that email, with
\* the fields it had.
C7_ExistingProfileKept ==
    \A e \in Events :
        FoundExisting(e) =>
            /\ ev[e].ret = "true" /\ ev[e].pc = "Admitted"
            /\ ev[e].creates = 0 /\ ~ev[e].created
            /\ ProfilesOf(ev[e].user.email) = {ev[e].userExists.user}

\* C7 witness: the identity carries another name than the stored profile.
C7_Witness ==
    \E e \in Events :
        /\ FoundExisting(e)
        /\ ev[e].userExists.user.name = "A"
        /\ ev[e].user.name = "A2"
        /\ \E p \in store : p.email = ev[e].user.email /\ p.name = "A"

\* C8 (as claimed): when the create call of signIn fails, signIn returns
\* false and the store holds no profile for that email when it returns.
C8_NoProfileAfterFailedCreate ==
    \A e \in Events :
        ev[e].createFailed =>
            /\ ev[e].ret = "false"
            /\ ~ev[e].profileAtReturn

\* C8 (amended): when the create call of signIn fails, signIn returns false
\* and that call added no profile; a profile for that email is in the store
\* only if the create call of another sign-in event added it.
C8_FailedCreateAddsNothing ==
    \A e \in Events :
        ev[e].createFailed =>
            /\ ev[e].ret = "false" /\ ev[e].pc = "Denied" /\ ~ev[e].thrown
            /\ ~ev[e].created
            /\ \A p \in ProfilesOf(ev[e].user.email) :
                  \E o \in Events \ {e} : ev[o].created /\ CreateArgs(ev[o].user) = p

\* C8 witness: a failed create, a denied event, and no profile for the email.
C8_Witness ==
    \E e \in Events :
        /\ ev[e].createFailed
        /\ ev[e].user.email \in Emails
        /\ ev[e].ret = "false"
        /\ ProfilesOf(ev[e].user.email) = {}

LookupFailed(e) == ev[e].lookups = 1 /\ ev[e].lookupErr = "StoreUnavailable"

\* C10: when the lookup fails, signIn returns false, throws nothing, and
\* issues no create call.
C10_LookupFailureDenied ==
    \A e \in Events :
        LookupFailed(e) =>
            /\ Terminal(e)
            /\ ev[e].ret = "false" /\ ev[e].pc = "Denied"
            /\ ~ev[e].thrown
            /\ ev[e].creates = 0 /\ ev[e].await = "none"

\* C10 witness: the lookup for a present email failed and the event is denied.
C10_Witness ==
    \E e \in Events :
        /\ LookupFailed(e)
        /\ ev[e].user.email \in Emails
        /\ ev[e].pc = "Denied"

----------------------------------------------------------------------------
(* Properties of the session assembler                                     *)

SessionDone == ss.pc = "done"

\* The lookup of the materialization event was answered.
SessionLookupOk == SessionDone /\ ss.lookupErr = "none"

\* session.user as passed in, {} when the session has none.
GivenUser == IF "user" \in DOMAIN ss.given THEN ss.given["user"] ELSE EmptyObj

\* C11: when the lookup for the session's email fails (store unavailable) or
\* finds no profile, session returns a session equal in every field to the
\* one passed in, and throws nothing.
C11_FallbackToProviderSession ==
    ( /\ SessionDone
      /\ \/ ss.lookupErr = "StoreUnavailable"
         \/ SessionLookupOk /\ ss.data.user = NoProfile )
    => /\ ss.ret.value = ss.given
       /\ ~ss.ret.thrown

\* C11 witness: the store answered, with no profile for the session's email.
C11_Witness ==
    /\ SessionLookupOk
    /\ ss.data.user = NoProfile
    /\ SessionEmail(ss.given) \in Emails
    /\ ss.ret.fresh

\* C12: when the lookup returns a profile, the session returned has the
\* top-level fields of the one passed in, except user; its user has the
\* profile's value on every key of the profile, the session's value on every
\* other key of session.user, and no other key.
C12_ProfileFieldsWin ==
    (SessionLookupOk /\ ss.data.user # NoProfile) =>
        LET out == ss.ret.value
            prof == ss.data.user
        IN  /\ Without(out, {"user"}) = Without(ss.given, {"user"})
            /\ DOMAIN out["user"] = (DOMAIN GivenUser) \cup (DOMAIN prof)
            /\ \A k \in DOMAIN prof : out["user"][k] = prof[k]
            /\ \A k \in (DOMAIN GivenUser) \ (DOMAIN prof) :
                  out["user"][k] = GivenUser[k]

\* C12 witness: the profile and the session disagree on name, the session
\* has a key the profile lacks and the profile one the session lacks.
C12_Witness ==
    /\ SessionLookupOk /\ ss.data.user # NoProfile
    /\ GivenUser["name"] # ss.data.user.name
    /\ "locale" \in DOMAIN ss.ret.value["user"]
    /\ "image" \notin DOMAIN GivenUser
    /\ ss.ret.value["user"]["name"] = ss.data.user.name

\* C13 (as claimed): for a session without user.email, session issues no
\* store lookup and returns the session passed in.
C13_NoLookupWithoutEmail ==
    (ss.pc # "idle" /\ SessionEmail(ss.given) = Undefined) =>
        /\ ss.lookups = 0
        /\ SessionDone => ss.ret.value = ss.given

\* C14: session never changes the store and issues no create, whatever the
\* session and whatever the store holds for its email.
C14_SessionReadOnly ==
    /\ SessionDone => ~ss.wrote
    /\ \A p \in store : \E e \in Events : ev[e].created /\ CreateArgs(ev[e].user) = p

\* C14 witness: the lookup found no profile, and the store still has none
\* for that email.
C14_Witness ==
    /\ SessionLookupOk /\ ss.data.user = NoProfile
    /\ SessionEmail(ss.given) \in Emails
    /\ ProfilesOf(SessionEmail(ss.given)) = {}
    /\ store # {}

\* C18: session leaves the object passed in as it was, on the merge path and
\* on the catch path; what the merge path returns is an object of its own.
C18_InputNotMutated ==
    SessionDone =>
        /\ ss.input = ss.given
        /\ SessionLookupOk => ss.ret.fresh

\* C18 witness: a merge that differs from the session passed in.
C18_Witness ==
    /\ SessionLookupOk /\ ss.data.user # NoProfile
    /\ ss.ret.value # ss.given
    /\ ss.input = ss.given

----------------------------------------------------------------------------
(* Properties of the store calls                                           *)

\* C16: a sign-in event issues one lookup and at most one create, the
\* create only after the lookup returned "absent" (never after a profile or
\* a failure); a materialization event issues one lookup; no call is
\* repeated.
C16_NoRetries ==
    /\ \A e \in Events :
          /\ ev[e].lookups <= 1 /\ ev[e].creates <= 1
          /\ ev[e].creates = 1 =>
                /\ ev[e].lookups = 1 /\ ev[e].await # "getUser"
                /\ ev[e].lookupErr = "none"
                /\ ev[e].userExists.user = NoProfile
          /\ Terminal(e) => ev[e].lookups = 1
          /\ ev[e].pc = "Reconciling" => ev[e].lookups = 1
    /\ ss.lookups <= 1
    /\ ss.pc # "idle" => ss.lookups = 1

\* C16 witness: a sign-in event and the materialization event both ended on
\* a failed lookup, another sign-in event on a create.
C16_Witness ==
    /\ SessionDone /\ ss.lookupErr = "StoreUnavailable" /\ ss.lookups = 1
    /\ \E e, o \in Events :
          /\ LookupFailed(e) /\ Terminal(e) /\ ev[e].creates = 0
          /\ Terminal(o) /\ ev[o].creates = 1 /\ ev[o].lookups = 1

\* C17: signIn returns true exactly when every store call it issued
\* completed without error; and when it returns true for an identity with
\* an email, a profile with that email is in the store at that moment.
C17_AdmitIffStoreCallsSucceeded ==
    \A e \in Events :
        Terminal(e) =>
            /\ ev[e].ret = "true" <=> (ev[e].lookupErr = "none" /\ ~ev[e].createFailed)
            /\ ev[e].ret \in {"true", "false"}
            /\ ev[e].ret = "true" =>
                  ev[e].user.email \in Emails /\ ev[e].profileAtReturn

\* C17 witness: one event admitted after its create, one denied after a
\* failed create.
C17_Witness ==
    \E e, o \in Events :
        /\ Terminal(e) /\ ev[e].ret = "true" /\ ev[e].created
        /\ Terminal(o) /\ ev[o].ret = "false" /\ ev[o].createFailed

----------------------------------------------------------------------------
(* Properties of the sign-in state machine                                 *)

\* The steps of one sign-in event.
SignInSteps ==
    { <<"Unauthenticated", "ExternalAssertionReceived">>,
      <<"ExternalAssertionReceived", "Reconciling">>,
      <<"Reconciling", "Reconciling">>,
      <<"Reconciling", "Admitted">>,
      <<"Reconciling", "Denied">> }

\* C15: a sign-in event moves Unauthenticated -> ExternalAssertionReceived ->
\* Reconciling -> Admitted | Denied; once the assertion is received it ends
\* in Admitted (signIn returned true) or Denied (it returned false); neither
\* is ever left; a token is issued only for an Admitted event.
C15_SignInStateMachine ==
    /\ \A e \in Events : (ev[e].pc = "ExternalAssertionReceived") ~> Terminal(e)
    /\ [][\A e \in Events :
            /\ ev[e].pc # ev'[e].pc => <<ev[e].pc, ev'[e].pc>> \in SignInSteps
            /\ Terminal(e) => /\ ev'[e].pc = ev[e].pc
                              /\ ev'[e].ret = ev[e].ret
                              /\ ev'[e].lookups = ev[e].lookups]_vars
    /\ [](\A e \in Events :
            /\ Terminal(e) => /\ ev[e].pc = "Admitted" <=> ev[e].ret = "true"
                              /\ ev[e].pc = "Denied" <=> ev[e].ret = "false"
            /\ ev[e].token => ev[e].pc = "Admitted")

\* C15 witness: one event denied, without a token; another admitted, with
\* a token.
C15_Witness ==
    \E e, o \in Events :
        /\ ev[e].pc = "Denied" /\ ~ev[e].token
        /\ ev[o].pc = "Admitted" /\ ev[o].token

====
